---- MODULE Spec2Model ----
(***************************************************************************)
(* Model of src/cpp/main.cpp: the spring/mass command line program.        *)
(*                                                                         *)
(* main splits the two string flags at commas, converts every token with   *)
(* std::stof, and calls GetDifferenceMatrix with the two list sizes.       *)
(* GetDifferenceMatrix allocates a rows x cols matrix of zeros and runs a  *)
(* fixed 4 x 4 loop that writes the -1 / +1 bands.                         *)
(*                                                                         *)
(* Strings are sequences of one-character strings.  Floating point values  *)
(* that occur (small whole numbers, -1.0, 0.0, 1.0) are exact and are      *)
(* modelled as integers.                                                   *)
(***************************************************************************)
EXTENDS Integers, Sequences, FiniteSets, TLC

VARIABLES
    FLAGS_spring_constants, \* the flag value, a string
    FLAGS_masses,           \* the flag value, a string
    spring_constants,       \* std::vector<float>
    masses,                 \* std::vector<float>
    it,                     \* position of the range-for loop in the split pieces
    pc,                     \* where the program is
    caller,                 \* "main", or "direct" for a bare call of the builder
    rows, cols, diagonal,   \* parameters of GetDifferenceMatrix
    i, j,                   \* loop variables of GetDifferenceMatrix
    A,                      \* the matrix, (row, col) -> value
    oob,                    \* the (row, col) written outside the shape
    heap_corrupt,           \* a write landed beyond the matrix storage
    calls,                  \* number of calls of GetDifferenceMatrix
    uncaught,               \* an exception that left main
    exit_code               \* the value main returned, -1 while none

vars == << FLAGS_spring_constants, FLAGS_masses, spring_constants, masses, it,
           pc, caller, rows, cols, diagonal, i, j, A, oob, heap_corrupt,
           calls, uncaught, exit_code >>

flagVars == << FLAGS_spring_constants, FLAGS_masses >>
listVars == << spring_constants, masses >>
paramVars == << caller, rows, cols, diagonal >>
endVars == << uncaught, exit_code >>

\* Largest number of comma separated tokens in a flag value.
MaxTokens == 4

\* Largest rows / cols handed to GetDifferenceMatrix when it is called directly.
MaxDim == 5

\* The tokens the flag values are built from: two numbers and a non-number.
TokenSet == { <<"1">>, <<"2">>, <<"x">> }

RECURSIVE Join(_)
\* The tokens of ts joined with commas (how a flag value is written).
Join(ts) ==
    IF Len(ts) = 0 THEN << >>
    ELSE IF Len(ts) = 1 THEN ts[1]
    ELSE ts[1] \o <<",">> \o Join(Tail(ts))

\* Flag values whose tokens are not plain numbers: a number followed by a
\* letter, a number after a blank, and an empty piece between two commas.
ExtraFlagValues ==
    { <<"1", "x">>, <<" ", "2">>, <<"1", ",", ",", "2">> }

\* The values the two string flags can hold when main starts.
FlagValues ==
    { Join(ts) : ts \in UNION { [1..n -> TokenSet] : n \in 0..MaxTokens } }
        \cup ExtraFlagValues

\* DEFINE_string(spring_constants, "1,1,1,1", ...) and DEFINE_string(masses, ...)
DefaultFlag == <<"1", ",", "1", ",", "1", ",", "1">>

RECURSIVE StrSplitRec(_, _, _)
StrSplitRec(s, k, cur) ==
    IF k > Len(s) THEN << cur >>
    ELSE IF s[k] = "," THEN << cur >> \o StrSplitRec(s, k + 1, << >>)
    ELSE StrSplitRec(s, k + 1, Append(cur, s[k]))

\* absl::StrSplit(s, ","): the pieces between commas; an empty string gives
\* one empty piece.
StrSplit(s) == StrSplitRec(s, 1, << >>)

DigitChars == <<"0", "1", "2", "3", "4", "5", "6", "7", "8", "9">>

IsDigit(ch) == \E d \in 1..10 : DigitChars[d] = ch

DigitVal(ch) == (CHOOSE d \in 1..10 : DigitChars[d] = ch) - 1

RECURSIVE SkipSpace(_, _)
\* Index of the first character of tok at or after k that is not a blank.
SkipSpace(tok, k) ==
    IF k <= Len(tok) /\ tok[k] = " " THEN SkipSpace(tok, k + 1) ELSE k

RECURSIVE DigitRun(_, _, _)
\* Parses the run of decimal digits of tok that starts at k; acc is the value
\* so far.  Gives the number of digits read and their value.
DigitRun(tok, k, acc) ==
    IF k <= Len(tok) /\ IsDigit(tok[k])
    THEN LET rest == DigitRun(tok, k + 1, acc * 10 + DigitVal(tok[k]))
         IN  [n |-> rest.n + 1, val |-> rest.val]
    ELSE [n |-> 0, val |-> acc]

\* std::stof(std::string(s), nullptr): skips leading blanks, converts the
\* longest numeric prefix and ignores what follows it; throws
\* std::invalid_argument when there is no numeric prefix.
stof(tok) ==
    LET run == DigitRun(tok, SkipSpace(tok, 1), 0)
    IN  IF run.n = 0 THEN [ok |-> FALSE, val |-> 0]
        ELSE [ok |-> TRUE, val |-> run.val]

\* A loop bound that follows the requested number of rows.
LoopBoundFromRows == rows

\* A loop bound that stops one iteration early.
LoopBoundOneShort == 4 - 1

\* The loops "for (int i = 0; i < 4; i++)" and "for (int j = 0; j < 4; j++)".
LoopBound == 4

\* bool diagonal promoted to int in "diagonal + 1".
BoolToInt(b) == IF b THEN 1 ELSE 0

\* The loop body with the +1 test on j - i instead of i - j.
BodyValueTransposed(ii, jj, d) ==
    IF ii = jj THEN -1
    ELSE IF jj - ii = BoolToInt(d) + 1 THEN 1
    ELSE 0

\* The loop body with the +1 test against diagonal instead of diagonal + 1.
BodyValueOffByOne(ii, jj, d) ==
    IF ii = jj THEN -1
    ELSE IF ii - jj = BoolToInt(d) THEN 1
    ELSE 0

\* The loop body with the flag ignored.
BodyValueNoFlag(ii, jj, d) ==
    IF ii = jj THEN -1
    ELSE IF ii - jj = 1 THEN 1
    ELSE 0

\* The loop body at (i, j): -1 on i == j, +1 on i - j == diagonal + 1, and
\* 0 for "no assignment".
BodyValue(ii, jj, d) ==
    IF ii = jj THEN -1
    ELSE IF ii - jj = BoolToInt(d) + 1 THEN 1
    ELSE 0

\* Eigen::MatrixXd(rows, cols) followed by setZero().
ZeroMatrix(nr, nc) == [p \in (0..(nr - 1)) \X (0..(nc - 1)) |-> 0]

\* A(row, col) addresses a coefficient of the matrix.
InShape(row, col, nr, nc) == row >= 0 /\ row < nr /\ col >= 0 /\ col < nc

\* Column-major storage offset of A(row, col).
LinearIndex(row, col, nr) == row + col * nr

\* The call with the flag computed by ">" where the code has ">=".
CallArgsStrict(sc, ms) ==
    [rows |-> Len(sc), cols |-> Len(ms), diagonal |-> ~(Len(sc) > Len(ms))]

\* The call with the flag computed from the first values, not from the sizes.
CallArgsByValue(sc, ms) ==
    [rows |-> Len(sc), cols |-> Len(ms), diagonal |-> ~(sc[1] >= ms[1])]

\* The arguments of the call in main.
CallArgs(sc, ms) ==
    [rows |-> Len(sc), cols |-> Len(ms), diagonal |-> ~(Len(sc) >= Len(ms))]

\* main at line 41.  The flags hold some value: main reads the FLAGS_
\* variables as they are and does not parse the command line itself.
Init ==
    /\ FLAGS_spring_constants \in FlagValues
    /\ FLAGS_masses \in FlagValues
    /\ spring_constants = << >>
    /\ masses = << >>
    /\ it = 1
    /\ pc = "parse_springs"
    /\ caller = "main"
    /\ rows = 0 /\ cols = 0 /\ diagonal = FALSE
    /\ i = 0 /\ j = 0
    /\ A = << >>
    /\ oob = {}
    /\ heap_corrupt = FALSE
    /\ calls = 0
    /\ uncaught = "none"
    /\ exit_code = -1

\* GetDifferenceMatrix called on its own with some rows, cols and diagonal.
InitBuilder ==
    /\ FLAGS_spring_constants = DefaultFlag
    /\ FLAGS_masses = DefaultFlag
    /\ spring_constants = << >>
    /\ masses = << >>
    /\ it = 1
    /\ pc = "alloc"
    /\ caller = "direct"
    /\ rows \in 0..MaxDim /\ cols \in 0..MaxDim /\ diagonal \in BOOLEAN
    /\ i = 0 /\ j = 0
    /\ A = << >>
    /\ oob = {}
    /\ heap_corrupt = FALSE
    /\ calls = 1
    /\ uncaught = "none"
    /\ exit_code = -1

(***************************************************************************)
(* main                                                                    *)
(***************************************************************************)

\* Lines 42-45, one iteration whose std::stof succeeds.
ParseSpring ==
    /\ pc = "parse_springs"
    /\ it <= Len(StrSplit(FLAGS_spring_constants))
    /\ LET r == stof(StrSplit(FLAGS_spring_constants)[it])
       IN  /\ r.ok
           /\ spring_constants' = Append(spring_constants, r.val)
    /\ it' = it + 1
    /\ UNCHANGED << flagVars, masses, pc, paramVars, i, j, A, oob,
                    heap_corrupt, calls, endVars >>

\* Line 42, the range is exhausted: on to line 47.
SpringsDone ==
    /\ pc = "parse_springs"
    /\ it > Len(StrSplit(FLAGS_spring_constants))
    /\ pc' = "parse_masses"
    /\ it' = 1
    /\ UNCHANGED << flagVars, listVars, paramVars, i, j, A, oob,
                    heap_corrupt, calls, endVars >>

\* Lines 48-51, one iteration whose std::stof succeeds.
ParseMass ==
    /\ pc = "parse_masses"
    /\ it <= Len(StrSplit(FLAGS_masses))
    /\ LET r == stof(StrSplit(FLAGS_masses)[it])
       IN  /\ r.ok
           /\ masses' = Append(masses, r.val)
    /\ it' = it + 1
    /\ UNCHANGED << flagVars, spring_constants, pc, paramVars, i, j, A, oob,
                    heap_corrupt, calls, endVars >>

\* Line 48, the range is exhausted: on to line 53.
MassesDone ==
    /\ pc = "parse_masses"
    /\ it > Len(StrSplit(FLAGS_masses))
    /\ pc' = "call"
    /\ UNCHANGED << flagVars, listVars, it, paramVars, i, j, A, oob,
                    heap_corrupt, calls, endVars >>

\* Lines 44 and 50: std::stof throws std::invalid_argument; main has no
\* handler, so the exception leaves main and the process is terminated.
StofThrows ==
    /\ \/ /\ pc = "parse_springs"
          /\ it <= Len(StrSplit(FLAGS_spring_constants))
          /\ ~stof(StrSplit(FLAGS_spring_constants)[it]).ok
       \/ /\ pc = "parse_masses"
          /\ it <= Len(StrSplit(FLAGS_masses))
          /\ ~stof(StrSplit(FLAGS_masses)[it]).ok
    /\ uncaught' = "std::invalid_argument"
    /\ pc' = "aborted"
    /\ UNCHANGED << flagVars, listVars, it, paramVars, i, j, A, oob,
                    heap_corrupt, calls, exit_code >>

\* Lines 53-54: the call of GetDifferenceMatrix.
CallBuilder ==
    /\ pc = "call"
    /\ LET args == CallArgs(spring_constants, masses)
       IN  /\ rows' = args.rows
           /\ cols' = args.cols
           /\ diagonal' = args.diagonal
    /\ calls' = calls + 1
    /\ pc' = "alloc"
    /\ UNCHANGED << flagVars, listVars, it, caller, i, j, A, oob,
                    heap_corrupt, endVars >>

\* Line 56: return 0.
MainReturn ==
    /\ pc = "main_return"
    /\ exit_code' = 0
    /\ pc' = "done"
    /\ UNCHANGED << flagVars, listVars, it, paramVars, i, j, A, oob,
                    heap_corrupt, calls, uncaught >>

(***************************************************************************)
(* GetDifferenceMatrix                                                     *)
(***************************************************************************)

\* Lines 18-20: allocate, zero, and enter the outer loop.
Alloc ==
    /\ pc = "alloc"
    /\ A' = ZeroMatrix(rows, cols)
    /\ i' = 0 /\ j' = 0
    /\ pc' = "loop"
    /\ UNCHANGED << flagVars, listVars, it, paramVars, oob, heap_corrupt,
                    calls, endVars >>

\* Lines 21-30, an iteration that assigns nothing.
LoopNoWrite ==
    /\ pc = "loop" /\ i < LoopBound /\ j < LoopBound
    /\ BodyValue(i, j, diagonal) = 0
    /\ j' = j + 1
    /\ UNCHANGED << flagVars, listVars, it, pc, paramVars, i, A, oob,
                    heap_corrupt, calls, endVars >>

\* Lines 24 and 28, A(j, i) = value with (j, i) inside the shape.
LoopWrite ==
    /\ pc = "loop" /\ i < LoopBound /\ j < LoopBound
    /\ BodyValue(i, j, diagonal) # 0
    /\ InShape(j, i, rows, cols)
    /\ A' = [A EXCEPT ![<<j, i>>] = BodyValue(i, j, diagonal)]
    /\ j' = j + 1
    /\ UNCHANGED << flagVars, listVars, it, pc, paramVars, i, oob,
                    heap_corrupt, calls, endVars >>

\* Lines 24 and 28, A(j, i) with (j, i) outside the shape, in a build that
\* keeps Eigen's index assertion: the assertion fails and the process aborts.
LoopWriteAssertFails ==
    /\ pc = "loop" /\ i < LoopBound /\ j < LoopBound
    /\ BodyValue(i, j, diagonal) # 0
    /\ ~InShape(j, i, rows, cols)
    /\ oob' = oob \cup { <<j, i>> }
    /\ pc' = "aborted"
    /\ UNCHANGED << flagVars, listVars, it, paramVars, i, j, A,
                    heap_corrupt, calls, endVars >>

\* Lines 24 and 28, A(j, i) with (j, i) outside the shape, in a build without
\* the assertion: the value is stored at the column-major offset, which is
\* another coefficient of the matrix or memory beyond its storage.
LoopWriteRaw ==
    /\ pc = "loop" /\ i < LoopBound /\ j < LoopBound
    /\ BodyValue(i, j, diagonal) # 0
    /\ ~InShape(j, i, rows, cols)
    /\ oob' = oob \cup { <<j, i>> }
    /\ LET n == LinearIndex(j, i, rows)
       IN  IF n < rows * cols
           THEN /\ A' = [A EXCEPT ![<<n % rows, n \div rows>>] =
                                        BodyValue(i, j, diagonal)]
                /\ UNCHANGED heap_corrupt
           ELSE /\ heap_corrupt' = TRUE
                /\ UNCHANGED A
    /\ j' = j + 1
    /\ UNCHANGED << flagVars, listVars, it, pc, paramVars, i, calls, endVars >>

\* Line 21, j reaches the bound: i++ and the inner loop starts again.
InnerLoopExit ==
    /\ pc = "loop" /\ i < LoopBound /\ j >= LoopBound
    /\ i' = i + 1
    /\ j' = 0
    /\ UNCHANGED << flagVars, listVars, it, pc, paramVars, A, oob,
                    heap_corrupt, calls, endVars >>

\* Line 20, i reaches the bound: on to line 32.
OuterLoopExit ==
    /\ pc = "loop" /\ i >= LoopBound
    /\ pc' = "ret"
    /\ UNCHANGED << flagVars, listVars, it, paramVars, i, j, A, oob,
                    heap_corrupt, calls, endVars >>

\* Line 32: return A.
BuilderReturn ==
    /\ pc = "ret"
    /\ pc' = IF caller = "main" THEN "main_return" ELSE "returned"
    /\ UNCHANGED << flagVars, listVars, it, paramVars, i, j, A, oob,
                    heap_corrupt, calls, endVars >>

\* After a store beyond the matrix storage the allocator may find the heap
\* damaged when the function's objects are released, and abort.
CorruptHeapAbort ==
    /\ pc = "ret"
    /\ heap_corrupt
    /\ pc' = "aborted"
    /\ UNCHANGED << flagVars, listVars, it, paramVars, i, j, A, oob,
                    heap_corrupt, calls, endVars >>

Next ==
    \/ ParseSpring
    \/ SpringsDone
    \/ ParseMass
    \/ MassesDone
    \/ StofThrows
    \/ CallBuilder
    \/ MainReturn
    \/ Alloc
    \/ LoopNoWrite
    \/ LoopWrite
    \/ LoopWriteAssertFails
    \/ LoopWriteRaw
    \/ InnerLoopExit
    \/ OuterLoopExit
    \/ BuilderReturn
    \/ CorruptHeapAbort

NextBuilder ==
    \/ Alloc
    \/ LoopNoWrite
    \/ LoopWrite
    \/ LoopWriteAssertFails
    \/ LoopWriteRaw
    \/ InnerLoopExit
    \/ OuterLoopExit
    \/ BuilderReturn
    \/ CorruptHeapAbort

\* A run of main.
Spec == Init /\ [][Next]_vars

\* A call of GetDifferenceMatrix on its own.
SpecBuilder == InitBuilder /\ [][NextBuilder]_vars

TypeOK ==
    /\ pc \in {"parse_springs", "parse_masses", "call", "alloc", "loop", "ret",
               "main_return", "returned", "done", "aborted"}
    /\ i \in 0..LoopBound /\ j \in 0..LoopBound
    /\ exit_code \in {-1, 0}
    /\ \A p \in DOMAIN A : A[p] \in {-1, 0, 1}

(***************************************************************************)
(* Vocabulary of the properties                                            *)
(***************************************************************************)

\* The +1 band's distance from the main diagonal: 1, or 2 with the flag.
BandOffset == IF diagonal THEN 2 ELSE 1

\* GetDifferenceMatrix has returned its matrix.
Returned == pc \in {"returned", "main_return", "done"}

\* The matrix is allocated (the loop or a later point has been reached).
Allocated == pc \in {"loop", "ret", "returned", "main_return", "done"}

\* A token that is a plain decimal number.
NumericToken(tok) ==
    Len(tok) > 0 /\ \A k \in 1..Len(tok) : IsDigit(tok[k])

\* Every comma separated token of the flag value is a plain number.
WellFormed(s) == \A k \in 1..Len(StrSplit(s)) : NumericToken(StrSplit(s)[k])

\* Some comma separated token of the flag value holds a character that is
\* neither a digit nor a blank, as the "x" of "1,x,3".
HasNonNumericToken(s) ==
    \E k \in 1..Len(StrSplit(s)) :
        \E m \in 1..Len(StrSplit(s)[k]) :
            ~IsDigit(StrSplit(s)[k][m]) /\ StrSplit(s)[k][m] # " "

\* The list a well-formed flag value stands for.
ParsedList(s) == [k \in 1..Len(StrSplit(s)) |-> stof(StrSplit(s)[k]).val]

\* The band rule with the +1 band to the right of the diagonal, as a matrix
\* over the given shape.
BandRight(r, c, off) ==
    IF c = r THEN -1 ELSE IF c - r = off THEN 1 ELSE 0

\* The band rule with the +1 band below the diagonal.
BandBelow(r, c, off) ==
    IF r = c THEN -1 ELSE IF r - c = off THEN 1 ELSE 0

\* The coefficients the fixed 4 x 4 iteration assigns, as (row, col, order).
BandStores(off) ==
    { <<r, c>> \in (0..3) \X (0..3) : c = r \/ c - r = off }

\* The matrix determined by the two sizes alone: every store of the fixed
\* iteration goes to column-major offset row + col * ns, the later store
\* (larger col, then larger row) wins, and stores past the storage are lost.
MatrixOfSizes(ns, nm) ==
    LET off == IF nm > ns THEN 2 ELSE 1
        hits(p) == { w \in BandStores(off) : w[1] + w[2] * ns = p[1] + p[2] * ns }
        last(p) == CHOOSE w \in hits(p) :
                       \A v \in hits(p) : v[2] * 4 + v[1] <= w[2] * 4 + w[1]
    IN  [p \in (0..(ns - 1)) \X (0..(nm - 1)) |->
            IF hits(p) = {} THEN 0 ELSE BandRight(last(p)[1], last(p)[2], off)]

(***************************************************************************)
(* Properties                                                              *)
(***************************************************************************)

\* C1: for rows = cols = 4 and either value of diagonal_offset, the returned
\* matrix has -1 at (j, i) when i = j, +1 when i - j is 1 (flag false) or 2
\* (flag true), and 0 everywhere else, for all i, j in 0..3.
C1_FourByFourBands ==
    (pc = "returned" /\ rows = 4 /\ cols = 4) =>
        /\ DOMAIN A = (0..3) \X (0..3)
        /\ \A ii \in 0..3, jj \in 0..3 :
              A[<<jj, ii>>] = IF ii = jj THEN -1
                              ELSE IF ii - jj = BandOffset THEN 1
                              ELSE 0

\* C1 witness: a 4 x 4 matrix was returned with the flag set.
C1_Witness ==
    pc = "returned" /\ rows = 4 /\ cols = 4 /\ diagonal /\ A[<<1, 3>>] = 1

\* C2: with 4 spring constants and 3 masses main calls the builder with
\* rows = 4, cols = 3, diagonal_offset = false, every store of the builder
\* lies inside the 4 x 3 shape, and the matrix it returns follows the band
\* rule.
C2_FourByThreeInsideShape ==
    (calls > 0 /\ Len(spring_constants) = 4 /\ Len(masses) = 3) =>
        /\ rows = 4 /\ cols = 3 /\ diagonal = FALSE
        /\ oob = {}
        /\ pc # "aborted"
        /\ Returned =>
              /\ DOMAIN A = (0..3) \X (0..2)
              /\ \A p \in DOMAIN A : A[p] = BandRight(p[1], p[2], 1)

\* C3 as stated: in every returned matrix with rows, cols >= 4 the entry at
\* (row, col) is -1 when row = col, +1 when row - col is 1 (flag false) or 2
\* (flag true), and 0 otherwise.
C3_BandBelowEverywhere ==
    (pc = "returned" /\ rows >= 4 /\ cols >= 4) =>
        \A p \in DOMAIN A : A[p] = BandBelow(p[1], p[2], BandOffset)

\* C3 as amended: in every returned matrix with rows, cols >= 4 the entry at
\* (row, col) with row < 4 and col < 4 is -1 when row = col, +1 when
\* col - row is 1 (flag false) or 2 (flag true), and 0 otherwise.
C3_BandRightInLeadingBlock ==
    (pc = "returned" /\ rows >= 4 /\ cols >= 4) =>
        \A p \in (0..3) \X (0..3) : A[p] = BandRight(p[1], p[2], BandOffset)

\* C3 witness: a matrix larger than 4 x 4 was returned, with its +1 band
\* right of the diagonal and its entry (4, 4) left at 0.
C3_Witness ==
    /\ pc = "returned" /\ rows >= 5 /\ cols >= 5
    /\ A[<<0, 1>>] = 1 /\ A[<<1, 0>>] = 0 /\ A[<<4, 4>>] = 0

\* C4 as stated: for rows = cols = 4 each of the four rows has a -1 on the
\* main diagonal and a +1 one column (flag false) or two columns (flag true)
\* to the right of it.
C4_EveryRowHasBothEntries ==
    (pc = "returned" /\ rows = 4 /\ cols = 4) =>
        \A r \in 0..3 :
            /\ A[<<r, r>>] = -1
            /\ r + BandOffset <= 3
            /\ A[<<r, r + BandOffset>>] = 1

\* C4 as amended: for rows = cols = 4 each of the four rows has a -1 on the
\* main diagonal, and a +1 one column (flag false) or two columns (flag true)
\* to the right of it when that column exists; the last row (flag false) or
\* last two rows (flag true) hold no +1 at all.
C4_RowsHaveEntriesThatFit ==
    (pc = "returned" /\ rows = 4 /\ cols = 4) =>
        \A r \in 0..3 :
            /\ A[<<r, r>>] = -1
            /\ (r + BandOffset <= 3) => A[<<r, r + BandOffset>>] = 1
            /\ (r + BandOffset > 3) => \A c \in 0..3 : A[<<r, c>>] # 1

\* C4 witness: a 4 x 4 matrix was returned whose row 0 has both entries and
\* whose last row has the -1 only.
C4_Witness ==
    /\ pc = "returned" /\ rows = 4 /\ cols = 4 /\ ~diagonal
    /\ A[<<0, 0>>] = -1 /\ A[<<0, 1>>] = 1
    /\ A[<<3, 3>>] = -1 /\ \A c \in 0..2 : A[<<3, c>>] = 0

\* C5: main calls the builder with rows = number of spring constants,
\* cols = number of masses, and diagonal_offset true exactly when there are
\* strictly more masses than spring constants.
C5_CallArguments ==
    (caller = "main" /\ calls > 0) =>
        /\ rows = Len(spring_constants)
        /\ cols = Len(masses)
        /\ diagonal = (Len(masses) > Len(spring_constants))

\* C5 witness: the builder was called with as many masses as spring
\* constants, the case that separates "greater" from "greater or equal".
C5_Witness ==
    /\ caller = "main" /\ calls > 0
    /\ Len(masses) = Len(spring_constants) /\ ~diagonal

C7_OutsideLeadingBlockStaysZero ==
    (Allocated /\ rows >= 4 /\ cols >= 4) =>
        /\ DOMAIN A = (0..(rows - 1)) \X (0..(cols - 1))
        /\ \A p \in DOMAIN A : (p[1] >= 4 \/ p[2] >= 4) => A[p] = 0

\* C7 witness: a matrix with more than 4 rows and columns was returned.
C7_Witness ==
    /\ pc = "returned" /\ rows >= 5 /\ cols >= 5
    /\ Cardinality(DOMAIN A) = rows * cols /\ A[<<3, 3>>] = -1

\* C8: a flag value with a non-numeric token makes parsing fail with an
\* error that is surfaced as a result, not as an abnormal end of the
\* process, and the builder is never called.  The cases are a non-numeric
\* token among the spring constants, and one among the masses after spring
\* constants that all convert.
C8_BadTokenIsReportedNotFatal ==
    (\/ HasNonNumericToken(FLAGS_spring_constants)
     \/ WellFormed(FLAGS_spring_constants)
            /\ HasNonNumericToken(FLAGS_masses)) =>
        /\ calls = 0
        /\ pc # "aborted"
        /\ uncaught = "none"

\* C9: on well-formed flag values both lists are complete when the builder
\* is called and stay as they are, the builder is called exactly once, and
\* the program ends with exit code 0, never abnormally.
C9_WellFormedRunEndsWithZero ==
    (WellFormed(FLAGS_spring_constants) /\ WellFormed(FLAGS_masses)) =>
        /\ calls <= 1
        /\ (calls > 0) =>
              /\ spring_constants = ParsedList(FLAGS_spring_constants)
              /\ masses = ParsedList(FLAGS_masses)
        /\ pc # "aborted"
        /\ (pc = "done") => (calls = 1 /\ exit_code = 0)

\* C10: the matrix main constructs is a function of the two list lengths
\* alone: whatever the values in the lists, it is the matrix MatrixOfSizes
\* gives for the lengths.
C10_MatrixDependsOnSizesOnly ==
    (caller = "main" /\ Returned) =>
        A = MatrixOfSizes(Len(spring_constants), Len(masses))

\* C10 witness: main constructed a matrix from lists that hold different
\* values.
C10_Witness ==
    /\ caller = "main" /\ pc = "done"
    /\ Len(spring_constants) = 4 /\ Len(masses) = 4
    /\ spring_constants[1] # masses[1]

====
